---- MODULE Spec2Model ----
(***************************************************************************)
(* Model of the helper scripts of the multiloader template:                *)
(*   scripts/add_service.py, scripts/set_minecraft_version.py and the      *)
(*   aggregate scripts/moddy.py (add-service, set-minecraft-version,       *)
(*   update).                                                              *)
(*                                                                         *)
(* Text is modelled as a sequence of one-character strings, so that the    *)
(* string operations of the scripts (startswith, lower, split, substring   *)
(* test, lexicographic sort) are computed character by character.          *)
(***************************************************************************)
EXTENDS Integers, Sequences, FiniteSets, TLC

VARIABLES
    \* ---- version lookup (get_artifact_latest, get_neoforge_version)
    tool,       \* "script": the standalone script, "moddy": the moddy sub-command
    mc,         \* the requested Minecraft version (text)
    doc,        \* what the metadata URL serves: FetchError, or the version
                \* texts of the document in document order
    result,     \* the value the function returned (None before it returns)
    lpc,        \* "ready" before the call, "done" after it, "off" in other specifications
    \* ---- console
    out,        \* the messages the current run has printed, in order
    \* ---- update (moddy.py cmd_update)
    script,     \* the installed moddy.py: its text
    bak,        \* the file moddy.bak next to it: absent, or its text
    upc,        \* where the update run stands
    urun,       \* the run's locals: AUTO_YES, the answer, MODDY_VERSION, new_code
    script0,    \* history: script when the current run started
    bak0,       \* history: bak when the current run started
    \* ---- set-minecraft-version
    props,      \* gradle.properties: its lines, each <<key, value>>
    spc,        \* where the set-minecraft-version run stands
    srun,       \* the run's locals: AUTO_YES, mc, versions, the answers
    props0,     \* history: props when the current run started
    \* ---- add-service
    fs,         \* the regular files of the project: path -> text
    dirs,       \* the directories of the project: a set of paths
    apc,        \* where the add-service run stands
    arun,       \* the run's locals: AUTO_YES, name, group, files, the answer
    fs0,        \* history: fs when the current run started
    dirs0,      \* history: dirs when the current run started
    \* ---- open-libs
    opc,        \* where the open-libs run stands
    orun,       \* the run's locals: the loader, platform.system()
    launched,   \* the programs the run has started, each with its argument
    \* ---- setup
    tree,       \* the regular files of the project: path -> lines of text
    tree0,      \* history: tree when the current run started
    xpc,        \* where the setup run stands
    xrun        \* the run's locals: the five answers, the confirmation

lookupVars == <<mc, doc, result, lpc>>
updateVars == <<script, bak, upc, urun, script0, bak0>>
setVars == <<props, spc, srun, props0>>
addVars == <<fs, dirs, apc, arun, fs0, dirs0>>
openVars == <<opc, orun, launched>>
setupVars == <<tree, tree0, xpc, xrun>>
vars ==
    <<tool, mc, doc, result, lpc, out, script, bak, upc, urun, script0, bak0,
      props, spc, srun, props0, fs, dirs, apc, arun, fs0, dirs0,
      opc, orun, launched, tree, tree0, xpc, xrun>>

\* Python's None against a value: an optional.
None == [some |-> FALSE, val |-> <<>>]
Some(v) == [some |-> TRUE, val |-> v]

\* What a metadata URL serves: the fetch raises, or a document listing versions.
FetchError == [ok |-> FALSE, versions |-> <<>>]
Document(vs) == [ok |-> TRUE, versions |-> vs]
Tools == {"script", "moddy"}

(***************************************************************************)
(* Bounds                                                                  *)
(***************************************************************************)
\* Longest list of versions a metadata document holds.
MaxListLen == 2
\* Number of different texts of moddy.py that declare the same MODDY_VERSION.
MaxBody == 2
\* Most fetchers of one set-minecraft-version run that find no version.
MaxMissing == 1
\* How many times setup is run.
MaxRuns == 2

(***************************************************************************)
(* Text helpers (Python str semantics)                                     *)
(***************************************************************************)
\* Code point of a character; only the characters the model uses.
Ord(c) ==
    CASE c = " " -> 32 [] c = "-" -> 45 [] c = "." -> 46
      [] c = "0" -> 48 [] c = "1" -> 49 [] c = "2" -> 50 [] c = "3" -> 51
      [] c = "4" -> 52 [] c = "5" -> 53 [] c = "6" -> 54 [] c = "7" -> 55
      [] c = "8" -> 56 [] c = "9" -> 57
      [] c = "E" -> 69 [] c = "N" -> 78 [] c = "O" -> 79 [] c = "S" -> 83
      [] c = "Y" -> 89
      [] c = "a" -> 97 [] c = "b" -> 98 [] c = "c" -> 99 [] c = "e" -> 101
      [] c = "n" -> 110 [] c = "o" -> 111 [] c = "p" -> 112 [] c = "r" -> 114
      [] c = "s" -> 115 [] c = "t" -> 116 [] c = "y" -> 121

IsDigit(c) == Ord(c) >= 48 /\ Ord(c) <= 57

\* s.startswith(p)
StartsWith(s, p) ==
    /\ Len(p) <= Len(s)
    /\ \A i \in 1..Len(p) : s[i] = p[i]

\* sub in s
Contains(s, sub) ==
    \E k \in 0..(Len(s) - Len(sub)) :
        \A i \in 1..Len(sub) : s[k + i] = sub[i]

\* a < b for str: the first differing code point decides, a proper prefix is smaller.
StrLess(a, b) ==
    \E k \in 0..Len(a) :
        /\ k <= Len(b)
        /\ \A i \in 1..k : a[i] = b[i]
        /\ \/ k = Len(a) /\ k < Len(b)
           \/ k < Len(a) /\ k < Len(b) /\ Ord(a[k + 1]) < Ord(b[k + 1])

\* s.split(sep) for a separator in the set seps (re.split(r"[.-]", s) when
\* seps = {".", "-"}): the pieces between the separators, empty ones kept.
RECURSIVE SplitOn(_, _)
SplitOn(s, seps) ==
    IF \A i \in 1..Len(s) : s[i] \notin seps
    THEN <<s>>
    ELSE LET k == CHOOSE i \in 1..Len(s) :
                      /\ s[i] \in seps
                      /\ \A j \in 1..(i - 1) : s[j] \notin seps
         IN  <<SubSeq(s, 1, k - 1)>> \o SplitOn(SubSeq(s, k + 1, Len(s)), seps)

\* sep.join(parts)
RECURSIVE Join(_, _)
Join(parts, sep) ==
    IF Len(parts) = 0 THEN <<>>
    ELSE IF Len(parts) = 1 THEN parts[1]
    ELSE parts[1] \o <<sep>> \o Join(Tail(parts), sep)

\* seq[lo:hi] with 0-based, end-exclusive Python slice indices (no negatives).
Slice(seq, lo, hi) ==
    LET h == IF hi > Len(seq) THEN Len(seq) ELSE hi
    IN  IF lo >= h THEN <<>> ELSE SubSeq(seq, lo + 1, h)

\* list.sort() of a list of str: ascending, equal elements keep their order.
RECURSIVE InsertSorted(_, _)
InsertSorted(v, sorted) ==
    IF Len(sorted) = 0 THEN <<v>>
    ELSE IF StrLess(v, Head(sorted)) THEN <<v>> \o sorted
    ELSE <<Head(sorted)>> \o InsertSorted(v, Tail(sorted))

RECURSIVE SortStr(_)
SortStr(seq) ==
    IF Len(seq) = 0 THEN <<>>
    ELSE InsertSorted(seq[Len(seq)], SortStr(SubSeq(seq, 1, Len(seq) - 1)))

\* seq[-1]
Last(seq) == seq[Len(seq)]

Range(seq) == {seq[i] : i \in DOMAIN seq}

\* All lists of at most n elements of S.
ListsUpTo(S, n) == UNION {[1..k -> S] : k \in 0..n}

\* c.lower() for one character
LowerChar(c) ==
    CASE c = "Y" -> "y" [] c = "E" -> "e" [] c = "S" -> "s"
      [] c = "N" -> "n" [] c = "O" -> "o" [] OTHER -> c

\* s.lower()
Lower(s) == [i \in 1..Len(s) |-> LowerChar(s[i])]

\* What a user may type at a [y/N] prompt.
Answers ==
    { <<"y">>, <<"Y">>, <<"y", "e", "s">>, <<"Y", "E", "S">>,
      <<"n">>, <<>>, <<" ", "y">>, <<"n", "y">> }

(***************************************************************************)
(* Files of the update command                                             *)
(***************************************************************************)
\* The MODDY_VERSION texts a copy of moddy.py may declare.
ModdyVersions ==
    { <<"0", ".", "1", ".", "0">>,
      <<"0", ".", "0", ".", "9">>,
      <<"0", ".", "2", ".", "0">> }

\* A text of moddy.py: the MODDY_VERSION it declares (None when it has no
\* such line) and which text it is among those (body 0: a text cut short by a
\* failed write).
Codes ==
    [declared : {None} \cup {Some(v) : v \in ModdyVersions}, body : 1..MaxBody]
CutShort == [declared |-> None, body |-> 0]
Shipped == [declared |-> Some(<<"0", ".", "1", ".", "0">>), body |-> 1]

Absent == [exists |-> FALSE, text |-> CutShort]
File(t) == [exists |-> TRUE, text |-> t]

\* The values the lookup variables keep in the specifications of the commands.
LookupOff ==
    /\ mc = <<>>
    /\ doc = FetchError
    /\ result = None
    /\ lpc = "off"

\* The locals of an update run before it has read anything.
NoRun ==
    [auto_yes |-> FALSE, answer |-> <<>>, MODDY_VERSION |-> <<>>,
     fetched |-> FALSE, new_code |-> CutShort, failed |-> "no"]

\* The values the update variables keep in the specifications of other commands.
UpdateOff ==
    /\ script = Shipped
    /\ bak = Absent
    /\ upc = "off"
    /\ urun = NoRun
    /\ script0 = Shipped
    /\ bak0 = Absent

(***************************************************************************)
(* gradle.properties                                                       *)
(***************************************************************************)
\* The keys set-minecraft-version fetches a version for.
FetchedKeys ==
    { "neoform_version", "neoforge_version", "parchment_version",
      "fabric_loader_version", "fabric_version", "mod_menu_version",
      "forge_version" }

\* gradle.properties of the template; a line that is no key=value line has
\* the key "#".
TemplateProps ==
    << <<"#", <<>>>>,
       <<"version", <<"1", ".", "0", ".", "0">>>>,
       <<"group", <<"c", "o", "m">>>>,
       <<"minecraft_version", <<"1", ".", "2", "1", ".", "1">>>>,
       <<"minecraft_version_range", <<"[", "1", ".", "2", "1", ".", "1", ",", " ", "1", ".", "2", "2", ")">>>>,
       <<"neo_form_version", <<"1">>>>,
       <<"parchment_minecraft", <<"1", ".", "2", "1", ".", "1">>>>,
       <<"parchment_version", <<"1">>>>,
       <<"fabric_loader_version", <<"1">>>>,
       <<"fabric_version", <<"1">>>>,
       <<"mod_menu_version", <<"1">>>>,
       <<"forge_version", <<"1">>>>,
       <<"neoforge_version", <<"1">>>>,
       <<"game_versions", <<"1", ".", "2", "1", ".", "1">>>> >>

\* The locals of a set-minecraft-version run before it has read anything.
NoSetRun ==
    [auto_yes |-> FALSE, mc |-> <<>>, versions |-> [k \in FetchedKeys |-> None],
     proceed |-> <<>>, asked |-> FALSE, answer |-> <<>>, wrote |-> FALSE]

\* The values the set-minecraft-version variables keep in the specifications
\* of other commands.
SetOff ==
    /\ props = TemplateProps
    /\ spc = "off"
    /\ srun = NoSetRun
    /\ props0 = TemplateProps

(***************************************************************************)
(* The project tree of add-service                                         *)
(***************************************************************************)
\* The locals of an add-service run before it has read anything.
NoAddRun ==
    [auto_yes |-> FALSE, name |-> <<>>, group |-> <<>>, files |-> <<>>,
     asked |-> FALSE, answer |-> <<>>, i |-> 0, completed |-> FALSE]

\* The values the add-service variables keep in the specifications of other
\* commands.
AddOff ==
    /\ fs = <<>>
    /\ dirs = {}
    /\ apc = "off"
    /\ arun = NoAddRun
    /\ fs0 = <<>>
    /\ dirs0 = {}

(***************************************************************************)
(* open-libs and setup: what their variables are before a run              *)
(***************************************************************************)
\* The locals of an open-libs run before it has read anything.
NoOpenRun == [loader |-> <<>>, system |-> "Linux"]

\* The values the open-libs variables keep in the specifications of other
\* commands.
OpenOff ==
    /\ opc = "off"
    /\ orun = NoOpenRun
    /\ launched = <<>>

\* The values the setup variables keep in the specifications of other commands.
SetupOff ==
    /\ tree = <<>>
    /\ tree0 = <<>>
    /\ xpc = "off"
    /\ xrun = <<>>

(***************************************************************************)
(* Version lookup: get_artifact_latest and get_neoforge_version            *)
(***************************************************************************)
\* Minecraft versions asked for, and the version texts a Maven metadata
\* document of neoform may list.
ArtifactMc == { <<"1", ".", "2", "0">>, <<"1", ".", "2", "0", ".", "1">> }

ArtifactPool ==
    { <<"1", ".", "2", "0", "-", "9">>,
      <<"1", ".", "2", "0", "-", "1", "0">>,
      <<"1", ".", "2", "0", "-", "1", "1", "-", "r", "c">>,
      <<"1", ".", "2", "0", "-", "p", "r", "e", "-", "2">>,
      <<"1", ".", "2", "0", ".", "1", "-", "3">> }

\* Minecraft versions asked for, and the version texts the NeoForge metadata
\* document may list.
NeoforgeMc ==
    { <<"1", ".", "2", "1", ".", "1">>,
      <<"1", ".", "2", "1", ".", "1", "0">>,
      <<"1", ".", "2", "1">> }

NeoforgePool ==
    { <<"2", "1", ".", "1", ".", "9">>,
      <<"2", "1", ".", "1", ".", "1", "0">>,
      <<"2", "1", ".", "1", "0", ".", "3">>,
      <<"2", "1", ".", "1", ".", "1", "2", "-", "b", "e", "t", "a">>,
      <<"2", "1", ".", "0", ".", "4">> }

\* get_artifact_latest(meta_url, mc_version); document is what the URL serves.
get_artifact_latest(document, mc_version) ==
    IF document = FetchError THEN None
    ELSE
      LET versions == document.versions
          prefix == mc_version \o <<"-">>
          candidates == SelectSeq(versions, LAMBDA v : StartsWith(v, prefix))
          stable == SelectSeq(candidates,
                        LAMBDA v : /\ ~Contains(v, <<"-", "r", "c">>)
                                   /\ ~Contains(v, <<"-", "p", "r", "e">>))
          chosen == IF Len(stable) > 0 THEN stable ELSE candidates
      IN  IF Len(candidates) = 0 THEN None
          ELSE Some(Last(SortStr(chosen)))

\* mc_prefix = ".".join(mc.split(".")[1:3])
mc_prefix(mcv) == Join(Slice(SplitOn(mcv, {"."}), 1, 3), ".")

\* get_neoforge_version(mc); document is what the metadata URL serves.
get_neoforge_version(document, mcv) ==
    IF document = FetchError THEN None
    ELSE
      LET versions == SelectSeq(document.versions,
                          LAMBDA v : StartsWith(v, mc_prefix(mcv)))
          stable == SelectSeq(versions,
                        LAMBDA v : /\ ~Contains(v, <<"-", "b", "e", "t", "a">>)
                                   /\ ~Contains(v, <<"-", "r", "c">>))
          chosen == IF Len(stable) > 0 THEN stable ELSE versions
      IN  IF Len(versions) = 0 THEN None
          ELSE Some(Last(chosen))

InitArtifact ==
    /\ tool \in Tools
    /\ mc \in ArtifactMc
    /\ doc \in {FetchError} \cup {Document(vs) : vs \in ListsUpTo(ArtifactPool, MaxListLen)}
    /\ result = None
    /\ lpc = "ready"
    /\ out = <<>>
    /\ UpdateOff
    /\ SetOff
    /\ AddOff
    /\ OpenOff
    /\ SetupOff

InitNeoforge ==
    /\ tool \in Tools
    /\ mc \in NeoforgeMc
    /\ doc \in {FetchError} \cup {Document(vs) : vs \in ListsUpTo(NeoforgePool, MaxListLen)}
    /\ result = None
    /\ lpc = "ready"
    /\ out = <<>>
    /\ UpdateOff
    /\ SetOff
    /\ AddOff
    /\ OpenOff
    /\ SetupOff

CallArtifactLatest ==
    /\ lpc = "ready"
    /\ result' = get_artifact_latest(doc, mc)
    /\ lpc' = "done"
    /\ UNCHANGED <<tool, mc, doc, out>>
    /\ UNCHANGED <<updateVars, setVars, addVars, openVars, setupVars>>

CallNeoforgeVersion ==
    /\ lpc = "ready"
    /\ result' = get_neoforge_version(doc, mc)
    /\ lpc' = "done"
    /\ UNCHANGED <<tool, mc, doc, out>>
    /\ UNCHANGED <<updateVars, setVars, addVars, openVars, setupVars>>

NextArtifact == CallArtifactLatest
NextNeoforge == CallNeoforgeVersion

SpecArtifact == InitArtifact /\ [][NextArtifact]_vars
SpecNeoforge == InitNeoforge /\ [][NextNeoforge]_vars

(***************************************************************************)
(* Numeric, component-wise version ordering (what the lookups are said to  *)
(* maximise)                                                               *)
(***************************************************************************)
IsNumber(s) == Len(s) > 0 /\ \A i \in 1..Len(s) : IsDigit(s[i])

RECURSIVE ToInt(_)
ToInt(s) ==
    IF Len(s) = 0 THEN 0
    ELSE 10 * ToInt(SubSeq(s, 1, Len(s) - 1)) + (Ord(s[Len(s)]) - 48)

Components(v) == SplitOn(v, {".", "-"})

\* One component against another: numbers by value, a qualifier (rc, pre,
\* beta) below any number, two qualifiers as text.
CompLess(a, b) ==
    IF IsNumber(a) /\ IsNumber(b) THEN ToInt(a) < ToInt(b)
    ELSE IF IsNumber(a) THEN FALSE
    ELSE IF IsNumber(b) THEN TRUE
    ELSE StrLess(a, b)

CompEq(a, b) == ~CompLess(a, b) /\ ~CompLess(b, a)

VerLess(a, b) ==
    LET pa == Components(a)
        pb == Components(b)
    IN  \E k \in 0..Len(pa) :
            /\ k <= Len(pb)
            /\ \A i \in 1..k : CompEq(pa[i], pb[i])
            /\ \/ k = Len(pa) /\ k < Len(pb)
               \/ k < Len(pa) /\ k < Len(pb) /\ CompLess(pa[k + 1], pb[k + 1])

Listed == Range(doc.versions)

\* The greatest elements of S under the numeric ordering.
Newest(S) == {v \in S : \A w \in S : ~VerLess(v, w)}

\* C8: get_artifact_latest returns, among the listed versions that start with
\* "<mc>-" (only the ones without -rc and -pre when there is one), the greatest
\* under the numeric component-wise ordering, and None exactly when no listed
\* version starts with "<mc>-".
ArtifactLatestIsNewest ==
    lpc = "done" =>
        LET cands == {v \in Listed : StartsWith(v, mc \o <<"-">>)}
            stable == {v \in cands : /\ ~Contains(v, <<"-", "r", "c">>)
                                     /\ ~Contains(v, <<"-", "p", "r", "e">>)}
            chosen == IF stable # {} THEN stable ELSE cands
        IN  IF cands = {} THEN result = None
            ELSE result.some /\ result.val \in Newest(chosen)

\* The versions of the NeoForge release line of Minecraft 1.X.Y: first two
\* numeric components X and Y (for 1.X: first component X).
MatchesRelease(v, mcv) ==
    LET want == Slice(SplitOn(mcv, {"."}), 1, 3)
        have == Components(v)
    IN  /\ Len(have) >= Len(want)
        /\ \A i \in 1..Len(want) :
              IsNumber(have[i]) /\ IsNumber(want[i]) /\ ToInt(have[i]) = ToInt(want[i])

\* C9: get_neoforge_version returns only a version of the requested release:
\* for 1.X.Y its first two numeric components are X and Y, for 1.X its first is X.
NeoforgeMatchesRelease ==
    (lpc = "done" /\ result # None) => MatchesRelease(result.val, mc)

\* C10: get_neoforge_version returns the greatest matching version under the
\* numeric ordering (among the ones without -beta and -rc when there is one),
\* whatever the order of the document. Stated for the documents in which the
\* prefix test and the component test select the same versions, so that the
\* order of the document is the only thing that can decide the result.
NeoforgeIsHighest ==
    LET matching == {v \in Listed : MatchesRelease(v, mc)}
        stable == {v \in matching : /\ ~Contains(v, <<"-", "b", "e", "t", "a">>)
                                    /\ ~Contains(v, <<"-", "r", "c">>)}
        chosen == IF stable # {} THEN stable ELSE matching
    IN  ( /\ lpc = "done"
          /\ matching # {}
          /\ \A v \in Listed : StartsWith(v, mc_prefix(mc)) => MatchesRelease(v, mc) )
        => result.some /\ result.val \in Newest(chosen)

(***************************************************************************)
(* update: moddy.py cmd_update                                             *)
(***************************************************************************)
Unknown == <<"u", "n", "k", "n", "o", "w", "n">>

\* A text that runs as moddy and so can be asked to update.
Runnable(t) == t.declared.some /\ t.body # 0

\* A mutation of Declined: only an answer of n or N declines.
DeclinedOnlyN(auto_yes, answer) == ~auto_yes /\ Lower(answer) = <<"n">>

\* not AUTO_YES and input(...).lower() != "y"
Declined(auto_yes, answer) == ~auto_yes /\ Lower(answer) # <<"y">>

\* m.group(1) if m else "unknown", m the first MODDY_VERSION = "..." of new_code
new_version(new_code) ==
    IF new_code.declared.some THEN new_code.declared.val ELSE Unknown

\* A mutation of UpToDate: the test is inverted.
UpToDateInverted(new_code, running) == new_version(new_code) # running

\* new_version == MODDY_VERSION
UpToDate(new_code, running) == new_version(new_code) = running

Say(msg) == out' = Append(out, msg)

\* The process starts: MODDY_VERSION is the one the installed text declares,
\* AUTO_YES is the -y flag; the warning is printed.
UpdateStart ==
    /\ upc = "idle"
    /\ Runnable(script)
    /\ \E ay \in BOOLEAN :
          urun' = [NoRun EXCEPT !.auto_yes = ay,
                                !.MODDY_VERSION = script.declared.val]
    /\ upc' = "confirm"
    /\ out' = <<"WARNING: this will download and execute code from the internet.">>
    /\ script0' = script
    /\ bak0' = bak
    /\ UNCHANGED <<script, bak>>
    /\ UNCHANGED <<tool, lookupVars, setVars, addVars, openVars, setupVars>>

\* The confirmation prompt (not shown under AUTO_YES).
UpdateConfirm ==
    /\ upc = "confirm"
    /\ \E a \in (IF urun.auto_yes THEN {<<>>} ELSE Answers) :
          /\ urun' = [urun EXCEPT !.answer = a]
          /\ IF Declined(urun.auto_yes, a)
             THEN Say("Aborted") /\ upc' = "done"
             ELSE upc' = "download" /\ UNCHANGED out
    /\ UNCHANGED <<script, bak, script0, bak0>>
    /\ UNCHANGED <<tool, lookupVars, setVars, addVars, openVars, setupVars>>

\* new_code = _fetch_url_text(UPDATE_URL): it raises, or serves some text.
UpdateDownload ==
    /\ upc = "download"
    /\ \/ /\ Say("Failed to download update")
          /\ upc' = "done"
          /\ UNCHANGED urun
       \/ /\ \E c \in Codes : urun' = [urun EXCEPT !.fetched = TRUE, !.new_code = c]
          /\ upc' = "compare"
          /\ UNCHANGED out
    /\ UNCHANGED <<script, bak, script0, bak0>>
    /\ UNCHANGED <<tool, lookupVars, setVars, addVars, openVars, setupVars>>

UpdateCompare ==
    /\ upc = "compare"
    /\ IF UpToDate(urun.new_code, urun.MODDY_VERSION)
       THEN Say("Moddy is already up to date.") /\ upc' = "done"
       ELSE upc' = "backup" /\ UNCHANGED out
    /\ UNCHANGED <<script, bak, urun, script0, bak0>>
    /\ UNCHANGED <<tool, lookupVars, setVars, addVars, openVars, setupVars>>

\* A mutation of UpdateBackup: the script is written without a backup.
UpdateBackupSkipped ==
    /\ upc = "backup"
    /\ upc' = "write"
    /\ UNCHANGED <<script, bak, urun, out, script0, bak0>>
    /\ UNCHANGED <<tool, lookupVars, setVars, addVars, openVars, setupVars>>

\* shutil.copy2(script_path, backup): it completes, or it raises having left
\* the backup as it was, cut short, or with the text but not the file times.
UpdateBackup ==
    /\ upc = "backup"
    /\ \/ /\ bak' = File(script)
          /\ upc' = "write"
          /\ UNCHANGED <<urun, out>>
       \/ /\ bak' \in {bak, File(CutShort), File(script)}
          /\ urun' = [urun EXCEPT !.failed = "copy"]
          /\ Say("Update failed")
          /\ upc' = "done"
    /\ UNCHANGED <<script, script0, bak0>>
    /\ UNCHANGED <<tool, lookupVars, setVars, addVars, openVars, setupVars>>

\* script_path.write_text(new_code): it completes, or it raises having left
\* the script as it was or cut short.
UpdateWrite ==
    /\ upc = "write"
    /\ \/ /\ script' = urun.new_code
          /\ upc' = "report"
          /\ UNCHANGED <<urun, out>>
       \/ /\ script' \in {script, CutShort}
          /\ urun' = [urun EXCEPT !.failed = "write"]
          /\ Say("Update failed")
          /\ upc' = "done"
    /\ UNCHANGED <<bak, script0, bak0>>
    /\ UNCHANGED <<tool, lookupVars, setVars, addVars, openVars, setupVars>>

UpdateReport ==
    /\ upc = "report"
    /\ out' = out \o <<"Updated Moddy", "A backup of the previous version was saved">>
    /\ upc' = "done"
    /\ UNCHANGED <<script, bak, urun, script0, bak0>>
    /\ UNCHANGED <<tool, lookupVars, setVars, addVars, openVars, setupVars>>

\* The process ends.
UpdateExit ==
    /\ upc = "done"
    /\ upc' = "idle"
    /\ urun' = NoRun
    /\ out' = <<>>
    /\ script0' = script
    /\ bak0' = bak
    /\ UNCHANGED <<script, bak>>
    /\ UNCHANGED <<tool, lookupVars, setVars, addVars, openVars, setupVars>>

InitUpdate ==
    /\ tool = "moddy"
    /\ LookupOff
    /\ out = <<>>
    /\ script = Shipped
    /\ bak = Absent
    /\ upc = "idle"
    /\ urun = NoRun
    /\ script0 = script
    /\ bak0 = bak
    /\ SetOff
    /\ AddOff
    /\ OpenOff
    /\ SetupOff

NextUpdate ==
    \/ UpdateStart
    \/ UpdateConfirm
    \/ UpdateDownload
    \/ UpdateCompare
    \/ UpdateBackup
    \/ UpdateWrite
    \/ UpdateReport
    \/ UpdateExit

SpecUpdate == InitUpdate /\ [][NextUpdate]_vars

\* C5: the installed script is overwritten only with code that declares a
\* MODDY_VERSION newer than the running one: whenever an update run has
\* written the script, the new text declares a version and that version is
\* greater than the MODDY_VERSION of the run.
UpdateOnlyNewer ==
    upc = "report" =>
        /\ script.declared.some
        /\ VerLess(urun.MODDY_VERSION, script.declared.val)

\* C6: the backup is complete before the script is written (every step that
\* changes the script starts with moddy.bak holding the script's text), and
\* when update reports success moddy.bak holds the text the script had when
\* the run started.
UpdateBacksUpFirst ==
    /\ [](upc = "report" => (bak = File(script0) /\ script = urun.new_code))
    /\ [][script' # script => bak = File(script)]_vars

\* A second successful update in a row: the backup of the first one is
\* replaced by the text the first one installed.
UpdateBacksUpFirstWitness ==
    /\ upc = "report"
    /\ bak0.exists
    /\ bak0 # File(script0)
    /\ Runnable(bak0.text)
    /\ bak = File(script0)
    /\ script # script0

\* The user was asked and answered something other than y or Y.
UserDeclined == ~urun.auto_yes /\ urun.answer \notin {<<"y">>, <<"Y">>}

\* C7: update leaves the script and moddy.bak as they were when the user
\* declines, when the download raises and when the downloaded code declares
\* the running MODDY_VERSION; when the backup copy fails the script is as it was.
UpdateLeavesFiles ==
    upc = "done" =>
        /\ UserDeclined
              => (script = script0 /\ bak = bak0 /\ Last(out) = "Aborted")
        /\ (~UserDeclined /\ ~urun.fetched)
              => (script = script0 /\ bak = bak0
                    /\ Last(out) = "Failed to download update")
        /\ (urun.fetched /\ urun.new_code.declared = Some(urun.MODDY_VERSION))
              => (script = script0 /\ bak = bak0
                    /\ Last(out) = "Moddy is already up to date.")
        /\ urun.failed = "copy" => script = script0

\* The downloaded code declares the running version while an older backup
\* exists and the text differs from the installed one: nothing is touched.
UpdateLeavesFilesWitness ==
    /\ upc = "done"
    /\ urun.fetched
    /\ urun.new_code.declared = Some(urun.MODDY_VERSION)
    /\ urun.new_code # script
    /\ bak0.exists
    /\ script = script0
    /\ bak = bak0

(***************************************************************************)
(* set-minecraft-version: set_minecraft_version.py main and moddy.py       *)
(* cmd_set_minecraft_version                                               *)
(***************************************************************************)
\* Minecraft versions given on the command line.
SetMc ==
    { <<"1", ".", "2", "1", ".", "5">>,
      <<"1", ".", "2", "0">>,
      <<"2", "5", "w", "1", "4", "a">> }

\* The version a fetcher found for a key.
FoundVersion == <<"9", ".", "9">>

DigitChars == <<"0", "1", "2", "3", "4", "5", "6", "7", "8", "9">>

\* str(n) for n >= 0
RECURSIVE ToStr(_)
ToStr(n) ==
    IF n < 10 THEN <<DigitChars[n + 1]>>
    ELSE ToStr(n \div 10) \o <<DigitChars[(n % 10) + 1]>>

\* The upper end of minecraft_version_range: "1.<minor + 1>", or mc itself
\* when mc has no second component or int() rejects it.
next_minor(mcv) ==
    LET parts == SplitOn(mcv, {"."})
    IN  IF Len(parts) >= 2
        THEN IF IsNumber(parts[2])
             THEN Join(<<parts[1], ToStr(ToInt(parts[2]) + 1)>>, ".")
             ELSE mcv
        ELSE mcv

\* The replacements of _apply_versions, in the order of the dict.
replacements(mcv, versions) ==
    << <<"minecraft_version", Some(mcv)>>,
       <<"minecraft_version_range",
         Some(<<"[">> \o mcv \o <<",", " ">> \o next_minor(mcv) \o <<")">>)>>,
       <<"neo_form_version", versions["neoform_version"]>>,
       <<"parchment_minecraft", Some(mcv)>>,
       <<"parchment_version", versions["parchment_version"]>>,
       <<"fabric_loader_version", versions["fabric_loader_version"]>>,
       <<"fabric_version", versions["fabric_version"]>>,
       <<"mod_menu_version", versions["mod_menu_version"]>>,
       <<"forge_version", versions["forge_version"]>>,
       <<"neoforge_version", versions["neoforge_version"]>>,
       <<"game_versions", Some(mcv)>> >>

\* re.sub(rf"(?m)^{key}=.*$", f"{key}={value}", text)
SubKey(text, key, value) ==
    [i \in 1..Len(text) |-> IF text[i][1] = key THEN <<key, value>> ELSE text[i]]

\* for key, value in replacements.items(): skip a falsy value, else substitute
RECURSIVE ApplyAll(_, _)
ApplyAll(text, repls) ==
    IF Len(repls) = 0 THEN text
    ELSE LET key == Head(repls)[1]
             value == Head(repls)[2]
         IN  IF ~value.some \/ value.val = <<>>
             THEN ApplyAll(text, Tail(repls))
             ELSE ApplyAll(SubKey(text, key, value.val), Tail(repls))

\* _apply_versions(props_path, mc, versions): the text it writes
apply_versions(text, mcv, versions) == ApplyAll(text, replacements(mcv, versions))

\* A mutation of Consents: anything but a leading n or N is taken as yes.
ConsentsUnlessN(answer) == ~StartsWith(Lower(answer), <<"n">>)

\* answer.lower().startswith("y")
Consents(answer) == StartsWith(Lower(answer), <<"y">>)

\* The process starts: the standalone script, or moddy with or without -y.
SetStart ==
    /\ spc = "idle"
    /\ \E t \in Tools, ay \in BOOLEAN, m \in SetMc :
          /\ (t = "script") => ~ay
          /\ tool' = t
          /\ srun' = [NoSetRun EXCEPT !.auto_yes = ay, !.mc = m]
          /\ IF t = "moddy"
             THEN spc' = "proceed" /\ out' = <<"Fetching dependency versions">>
             ELSE spc' = "fetch" /\ out' = <<>>
    /\ props0' = props
    /\ UNCHANGED props
    /\ UNCHANGED <<lookupVars, updateVars, addVars, openVars, setupVars>>

\* moddy only: the Proceed? prompt (not shown under AUTO_YES).
SetProceed ==
    /\ spc = "proceed"
    /\ \E a \in (IF srun.auto_yes THEN {<<>>} ELSE Answers) :
          /\ srun' = [srun EXCEPT !.proceed = a]
          /\ IF Declined(srun.auto_yes, a)
             THEN Say("Aborted") /\ spc' = "done"
             ELSE spc' = "fetch" /\ UNCHANGED out
    /\ UNCHANGED <<tool, props, props0>>
    /\ UNCHANGED <<lookupVars, updateVars, addVars, openVars, setupVars>>

\* versions = collect_versions(mc): each fetcher finds a version or None
\* (at most MaxMissing of them None).
SetFetch ==
    /\ spc = "fetch"
    /\ \E missing \in SUBSET FetchedKeys :
          /\ Cardinality(missing) <= MaxMissing
          /\ srun' = [srun EXCEPT !.versions =
                          [k \in FetchedKeys |->
                              IF k \in missing THEN None ELSE Some(FoundVersion)]]
    /\ Say("Fetched versions:")
    /\ spc' = "apply"
    /\ UNCHANGED <<tool, props, props0>>
    /\ UNCHANGED <<lookupVars, updateVars, addVars, openVars, setupVars>>

\* The Apply these versions? prompt (answered "y" under AUTO_YES), then
\* _apply_versions or "No changes made".
SetApply ==
    /\ spc = "apply"
    /\ \E a \in (IF srun.auto_yes THEN {<<"y">>} ELSE Answers) :
          IF Consents(a)
          THEN /\ props' = apply_versions(props, srun.mc, srun.versions)
               /\ srun' = [srun EXCEPT !.asked = ~srun.auto_yes, !.answer = a,
                                       !.wrote = TRUE]
               /\ Say("Updated gradle.properties")
          ELSE /\ UNCHANGED props
               /\ srun' = [srun EXCEPT !.asked = ~srun.auto_yes, !.answer = a]
               /\ Say("No changes made")
    /\ spc' = "done"
    /\ UNCHANGED <<tool, props0>>
    /\ UNCHANGED <<lookupVars, updateVars, addVars, openVars, setupVars>>

\* The process ends.
SetExit ==
    /\ spc = "done"
    /\ spc' = "idle"
    /\ srun' = NoSetRun
    /\ out' = <<>>
    /\ props0' = props
    /\ UNCHANGED <<tool, props>>
    /\ UNCHANGED <<lookupVars, updateVars, addVars, openVars, setupVars>>

InitSet ==
    /\ tool = "script"
    /\ LookupOff
    /\ UpdateOff
    /\ out = <<>>
    /\ props = TemplateProps
    /\ spc = "idle"
    /\ srun = NoSetRun
    /\ props0 = props
    /\ AddOff
    /\ OpenOff
    /\ SetupOff

NextSet ==
    \/ SetStart
    \/ SetProceed
    \/ SetFetch
    \/ SetApply
    \/ SetExit

SpecSet == InitSet /\ [][NextSet]_vars

\* The answer to the Apply prompt starts with y or Y.
SaidYes == srun.answer # <<>> /\ srun.answer[1] \in {"y", "Y"}

\* C4: gradle.properties is written only if the answer to the Apply prompt
\* starts with y or Y (or AUTO_YES is set in moddy); after any other answer
\* the command reports "No changes made" and gradle.properties is what it was
\* when the run started, whatever was fetched.
SetVersionNeedsConsent ==
    /\ srun.wrote => (SaidYes \/ (tool = "moddy" /\ srun.auto_yes))
    /\ props # props0 => srun.wrote
    /\ (spc = "done" /\ srun.asked /\ ~SaidYes)
          => (props = props0 /\ ~srun.wrote /\ Last(out) = "No changes made")

\* Versions were fetched that differ from the file's, the user answered the
\* Apply prompt with something else than yes, and the file is as it was.
SetVersionNeedsConsentWitness ==
    /\ spc = "done"
    /\ srun.asked
    /\ ~SaidYes
    /\ srun.answer # <<>>
    /\ \E k \in FetchedKeys : srun.versions[k].some
    /\ apply_versions(props0, srun.mc, srun.versions) # props0
    /\ props = props0

(***************************************************************************)
(* add-service: add_service.py main and moddy.py cmd_add_service           *)
(***************************************************************************)
Letters ==
    { "a", "b", "c", "d", "e", "f", "g", "h", "i", "j", "k", "l", "m", "n", "o",
      "p", "q", "r", "s", "t", "u", "v", "w", "x", "y", "z",
      "A", "B", "C", "D", "E", "F", "G", "H", "I", "J", "K", "L", "M", "N", "O",
      "P", "Q", "R", "S", "T", "U", "V", "W", "X", "Y", "Z" }
Digits == {"0", "1", "2", "3", "4", "5", "6", "7", "8", "9"}

\* re.match(r"^[A-Za-z_][A-Za-z0-9_]*$", name)
IsIdentifier(name) ==
    /\ Len(name) >= 1
    /\ name[1] \in Letters \cup {"_"}
    /\ \A i \in 2..Len(name) : name[i] \in Letters \cup Digits \cup {"_"}

\* s.strip(), for blanks
RECURSIVE Strip(_)
Strip(s) ==
    IF Len(s) > 0 /\ s[1] = " " THEN Strip(Tail(s))
    ELSE IF Len(s) > 0 /\ s[Len(s)] = " " THEN Strip(SubSeq(s, 1, Len(s) - 1))
    ELSE s

\* s.replace(".", "/")
DotsToSlashes(s) == [i \in 1..Len(s) |-> IF s[i] = "." THEN "/" ELSE s[i]]

\* The components of Path(text): the non-empty pieces between slashes.
PathParts(text) == SelectSeq(SplitOn(text, {"/"}), LAMBDA c : c # <<>>)

\* parse_group(props_path): the value of the first group= line with a
\* non-empty value, stripped; None stands for the RuntimeError.
parse_group(text) ==
    LET hits == SelectSeq(text, LAMBDA l : l[1] = "group" /\ l[2] # <<>>)
    IN  IF Len(hits) = 0 THEN None ELSE Some(Strip(hits[1][2]))

JavaRoot(module) == <<module, <<"s", "r", "c">>, <<"m", "a", "i", "n">>, <<"j", "a", "v", "a">>>>
MetaRoot(module) == <<module, <<"s", "r", "c">>, <<"m", "a", "i", "n">>, <<"r", "e", "s", "o", "u", "r", "c", "e", "s">>, <<"M", "E", "T", "A", "-", "I", "N", "F">>, <<"s", "e", "r", "v", "i", "c", "e", "s">>>>

\* f"{group}.platform.services.{name}"
service_fqn(group, name) == group \o <<".", "p", "l", "a", "t", "f", "o", "r", "m", ".", "s", "e", "r", "v", "i", "c", "e", "s", ".">> \o name

\* The text of an implementation class; a text is its lines, a line its words.
ImplText(group, name, prefix) ==
    << <<<<"p", "a", "c", "k", "a", "g", "e">>, group \o <<".", "p", "l", "a", "t", "f", "o", "r", "m", ";">>>>,
       <<>>,
       <<<<"i", "m", "p", "o", "r", "t">>, service_fqn(group, name) \o <<";">>>>,
       <<>>,
       <<<<"p", "u", "b", "l", "i", "c">>, <<"c", "l", "a", "s", "s">>, prefix \o name, <<"i", "m", "p", "l", "e", "m", "e", "n", "t", "s">>, name, <<"{">>>>,
       <<<<"}">>>> >>

\* A mutation of files: the NeoForge services entry is a copy of the Forge one.
filesCopied(group, name) ==
    LET pkg == PathParts(DotsToSlashes(group))
    IN  << <<JavaRoot(<<"c", "o", "m", "m", "o", "n">>) \o pkg \o <<<<"p", "l", "a", "t", "f", "o", "r", "m">>, <<"s", "e", "r", "v", "i", "c", "e", "s">>, name \o <<".", "j", "a", "v", "a">>>>,
             << <<<<"p", "a", "c", "k", "a", "g", "e">>, group \o <<".", "p", "l", "a", "t", "f", "o", "r", "m", ".", "s", "e", "r", "v", "i", "c", "e", "s", ";">>>>,
                <<>>,
                <<<<"p", "u", "b", "l", "i", "c">>, <<"i", "n", "t", "e", "r", "f", "a", "c", "e">>, name, <<"{">>>>,
                <<<<"}">>>> >> >>,
           <<JavaRoot(<<"f", "a", "b", "r", "i", "c">>) \o pkg \o <<<<"p", "l", "a", "t", "f", "o", "r", "m">>, <<"F", "a", "b", "r", "i", "c">> \o name \o <<".", "j", "a", "v", "a">>>>,
             ImplText(group, name, <<"F", "a", "b", "r", "i", "c">>)>>,
           <<JavaRoot(<<"f", "o", "r", "g", "e">>) \o pkg \o <<<<"p", "l", "a", "t", "f", "o", "r", "m">>, <<"F", "o", "r", "g", "e">> \o name \o <<".", "j", "a", "v", "a">>>>,
             ImplText(group, name, <<"F", "o", "r", "g", "e">>)>>,
           <<JavaRoot(<<"n", "e", "o", "f", "o", "r", "g", "e">>) \o pkg \o <<<<"p", "l", "a", "t", "f", "o", "r", "m">>, <<"N", "e", "o", "F", "o", "r", "g", "e">> \o name \o <<".", "j", "a", "v", "a">>>>,
             ImplText(group, name, <<"N", "e", "o", "F", "o", "r", "g", "e">>)>>,
           <<MetaRoot(<<"f", "a", "b", "r", "i", "c">>) \o <<service_fqn(group, name)>>,
             << <<group \o <<".", "p", "l", "a", "t", "f", "o", "r", "m", ".", "F", "a", "b", "r", "i", "c">> \o name>> >> >>,
           <<MetaRoot(<<"f", "o", "r", "g", "e">>) \o <<service_fqn(group, name)>>,
             << <<group \o <<".", "p", "l", "a", "t", "f", "o", "r", "m", ".", "F", "o", "r", "g", "e">> \o name>> >> >>,
           <<MetaRoot(<<"n", "e", "o", "f", "o", "r", "g", "e">>) \o <<service_fqn(group, name)>>,
             << <<group \o <<".", "p", "l", "a", "t", "f", "o", "r", "m", ".", "F", "o", "r", "g", "e">> \o name>> >> >> >>

\* The dict files of main, in insertion order: <<path, text>> pairs.
files(group, name) ==
    LET pkg == PathParts(DotsToSlashes(group))
    IN  << <<JavaRoot(<<"c", "o", "m", "m", "o", "n">>) \o pkg \o <<<<"p", "l", "a", "t", "f", "o", "r", "m">>, <<"s", "e", "r", "v", "i", "c", "e", "s">>, name \o <<".", "j", "a", "v", "a">>>>,
             << <<<<"p", "a", "c", "k", "a", "g", "e">>, group \o <<".", "p", "l", "a", "t", "f", "o", "r", "m", ".", "s", "e", "r", "v", "i", "c", "e", "s", ";">>>>,
                <<>>,
                <<<<"p", "u", "b", "l", "i", "c">>, <<"i", "n", "t", "e", "r", "f", "a", "c", "e">>, name, <<"{">>>>,
                <<<<"}">>>> >> >>,
           <<JavaRoot(<<"f", "a", "b", "r", "i", "c">>) \o pkg \o <<<<"p", "l", "a", "t", "f", "o", "r", "m">>, <<"F", "a", "b", "r", "i", "c">> \o name \o <<".", "j", "a", "v", "a">>>>,
             ImplText(group, name, <<"F", "a", "b", "r", "i", "c">>)>>,
           <<JavaRoot(<<"f", "o", "r", "g", "e">>) \o pkg \o <<<<"p", "l", "a", "t", "f", "o", "r", "m">>, <<"F", "o", "r", "g", "e">> \o name \o <<".", "j", "a", "v", "a">>>>,
             ImplText(group, name, <<"F", "o", "r", "g", "e">>)>>,
           <<JavaRoot(<<"n", "e", "o", "f", "o", "r", "g", "e">>) \o pkg \o <<<<"p", "l", "a", "t", "f", "o", "r", "m">>, <<"N", "e", "o", "F", "o", "r", "g", "e">> \o name \o <<".", "j", "a", "v", "a">>>>,
             ImplText(group, name, <<"N", "e", "o", "F", "o", "r", "g", "e">>)>>,
           <<MetaRoot(<<"f", "a", "b", "r", "i", "c">>) \o <<service_fqn(group, name)>>,
             << <<group \o <<".", "p", "l", "a", "t", "f", "o", "r", "m", ".", "F", "a", "b", "r", "i", "c">> \o name>> >> >>,
           <<MetaRoot(<<"f", "o", "r", "g", "e">>) \o <<service_fqn(group, name)>>,
             << <<group \o <<".", "p", "l", "a", "t", "f", "o", "r", "m", ".", "F", "o", "r", "g", "e">> \o name>> >> >>,
           <<MetaRoot(<<"n", "e", "o", "f", "o", "r", "g", "e">>) \o <<service_fqn(group, name)>>,
             << <<group \o <<".", "p", "l", "a", "t", "f", "o", "r", "m", ".", "N", "e", "o", "F", "o", "r", "g", "e">> \o name>> >> >> >>

\* Service names given on the command line.
NameArgs == { <<"B">>, <<"I", "A">>, <<"B", " ">>, <<"1", "x">> }

\* gradle.properties with the group line set; an empty value is a line group=
GroupValues == { <<"a", ".", "b">>, <<"c">>, <<>> }

\* Files the user wrote by hand before any run, where a service B of group
\* a.b would put its Fabric class and its NeoForge services entry.
UserText == << <<<<"u", "s", "e", "r">>>> >>
UserPaths == { files(<<"a", ".", "b">>, <<"B">>)[2][1], files(<<"a", ".", "b">>, <<"B">>)[7][1] }

\* The directories above a path.
Ancestors(p) == {SubSeq(p, 1, k) : k \in 1..(Len(p) - 1)}

\* p.exists()
Exists(p) == p \in DOMAIN fs \/ p \in dirs

\* A mutation of existing: only the interface file is looked for.
existingInterfaceOnly(fl) ==
    {fl[i][1] : i \in {j \in {1} : Exists(fl[j][1])}}

\* existing = [str(p) for p in files if p.exists()]
existing(fl) ==
    {fl[i][1] : i \in {j \in 1..Len(fl) : Exists(fl[j][1])}}

\* path.write_text(text): the file is created or replaced.
WriteText(p, text) ==
    [q \in (DOMAIN fs) \cup {p} |-> IF q = p THEN text ELSE fs[q]]

\* The process starts; what main does up to the prompt: the name is checked,
\* the group read, the files listed, the existing ones looked for.
AddStart ==
    /\ apc = "idle"
    /\ \E t \in Tools, ay \in BOOLEAN, raw \in NameArgs :
          LET name == Strip(raw)
              g == parse_group(props)
              run == [NoAddRun EXCEPT !.auto_yes = ay, !.name = name]
          IN  /\ (t = "script") => ~ay
              /\ tool' = t
              /\ IF ~IsIdentifier(name)
                 THEN /\ arun' = run
                      /\ out' = <<"Illegal characters in service name">>
                      /\ apc' = "done"
                 ELSE IF ~g.some
                 THEN /\ arun' = run
                      /\ out' = <<"Could not determine group property">>
                      /\ apc' = "done"
                 ELSE LET fl == files(g.val, name)
                      IN  /\ arun' = [run EXCEPT !.group = g.val, !.files = fl]
                          /\ IF existing(fl) # {}
                             THEN /\ out' = <<"The following files will be created:",
                                              "The following files already exist and will not be overwritten:">>
                                  /\ apc' = "done"
                             ELSE /\ out' = <<"The following files will be created:">>
                                  /\ apc' = "prompt"
    /\ fs0' = fs
    /\ dirs0' = dirs
    /\ UNCHANGED <<fs, dirs>>
    /\ UNCHANGED <<lookupVars, updateVars, setVars, openVars, setupVars>>

\* The Proceed? prompt (not shown by moddy under AUTO_YES).
AddPrompt ==
    /\ apc = "prompt"
    /\ \E a \in (IF arun.auto_yes THEN {<<>>} ELSE Answers) :
          /\ IF Declined(arun.auto_yes, a)
             THEN /\ Say("Aborted")
                  /\ apc' = "done"
                  /\ arun' = [arun EXCEPT !.asked = ~arun.auto_yes, !.answer = a]
             ELSE /\ UNCHANGED out
                  /\ apc' = "write"
                  /\ arun' = [arun EXCEPT !.asked = ~arun.auto_yes, !.answer = a,
                                          !.i = 1]
    /\ UNCHANGED <<tool, fs, dirs, fs0, dirs0>>
    /\ UNCHANGED <<lookupVars, updateVars, setVars, openVars, setupVars>>

\* One round of the loop: the parent directories are made, the file is written.
AddWrite ==
    /\ apc = "write"
    /\ LET p == arun.files[arun.i][1]
           text == arun.files[arun.i][2]
       IN  /\ dirs' = dirs \cup Ancestors(p)
           /\ fs' = WriteText(p, text)
    /\ Say("Created")
    /\ IF arun.i = Len(arun.files)
       THEN apc' = "done" /\ arun' = [arun EXCEPT !.completed = TRUE]
       ELSE apc' = "write" /\ arun' = [arun EXCEPT !.i = arun.i + 1]
    /\ UNCHANGED <<tool, fs0, dirs0>>
    /\ UNCHANGED <<lookupVars, updateVars, setVars, openVars, setupVars>>

\* mkdir or write_text raises (or the user interrupts): the run ends with
\* nothing more done, with the directories made, or with the file left empty.
AddWriteFail ==
    /\ apc = "write"
    /\ LET p == arun.files[arun.i][1]
       IN  \/ UNCHANGED <<fs, dirs>>
           \/ dirs' = dirs \cup Ancestors(p) /\ UNCHANGED fs
           \/ dirs' = dirs \cup Ancestors(p) /\ fs' = WriteText(p, <<>>)
    /\ Say("Traceback")
    /\ apc' = "done"
    /\ UNCHANGED <<tool, arun, fs0, dirs0>>
    /\ UNCHANGED <<lookupVars, updateVars, setVars, openVars, setupVars>>

\* The process ends.
AddExit ==
    /\ apc = "done"
    /\ apc' = "idle"
    /\ arun' = NoAddRun
    /\ out' = <<>>
    /\ fs0' = fs
    /\ dirs0' = dirs
    /\ UNCHANGED <<tool, fs, dirs>>
    /\ UNCHANGED <<lookupVars, updateVars, setVars, openVars, setupVars>>

InitAdd ==
    /\ tool = "script"
    /\ LookupOff
    /\ UpdateOff
    /\ out = <<>>
    /\ \E g \in GroupValues : props = SubKey(TemplateProps, "group", g)
    /\ spc = "off"
    /\ srun = NoSetRun
    /\ props0 = props
    /\ \E user \in SUBSET UserPaths :
          /\ fs = [p \in user |-> UserText]
          /\ dirs = UNION {Ancestors(p) : p \in user}
    /\ apc = "idle"
    /\ arun = NoAddRun
    /\ fs0 = fs
    /\ dirs0 = dirs
    /\ OpenOff
    /\ SetupOff

NextAdd ==
    \/ AddStart
    \/ AddPrompt
    \/ AddWrite
    \/ AddWriteFail
    \/ AddExit

SpecAdd == InitAdd /\ [][NextAdd]_vars

\* The answer to the Proceed? prompt of add-service is y or Y.
AddSaidYes == arun.asked /\ arun.answer \in {<<"y">>, <<"Y">>}

\* The paths the current run listed as the files it will create.
AddTargets == {arun.files[i][1] : i \in 1..Len(arun.files)}

\* C1: add-service never overwrites a file: every file that existed when the
\* run started is there with the text it had, and a run that started while
\* one of its target paths existed has written nothing and made no directory.
AddNeverOverwrites ==
    apc \in {"prompt", "write", "done"} =>
        /\ \A p \in DOMAIN fs0 : p \in DOMAIN fs /\ fs[p] = fs0[p]
        /\ (\E p \in AddTargets : p \in DOMAIN fs0 \/ p \in dirs0)
              => (fs = fs0 /\ dirs = dirs0)

\* A run whose targets partly existed ended, confirmation not even needed,
\* with the missing targets still missing.
AddNeverOverwritesWitness ==
    /\ apc = "done"
    /\ \E p \in AddTargets : p \in DOMAIN fs0
    /\ \E p \in AddTargets : p \notin DOMAIN fs0 /\ p \notin DOMAIN fs
    /\ \E p \in DOMAIN fs0 : fs0[p] # UserText
    /\ fs = fs0

\* C2: nothing is created before the Proceed? prompt is answered with y or Y
\* (moddy skips the prompt only under AUTO_YES), and after any other answer
\* the run ends with the files and directories as they were.
AddAsksFirst ==
    LET consent == \/ AddSaidYes
                   \/ tool = "moddy" /\ arun.auto_yes /\ ~arun.asked
    IN  apc \in {"prompt", "write", "done"} =>
            /\ (fs # fs0 \/ dirs # dirs0) => consent
            /\ apc = "write" => consent
            /\ (arun.asked /\ ~AddSaidYes)
                  => (apc = "done" /\ fs = fs0 /\ dirs = dirs0 /\ Last(out) = "Aborted")

\* The user answered the prompt of a run that could have gone ahead with
\* something that starts with y but is not y: nothing was created.
AddAsksFirstWitness ==
    /\ apc = "done"
    /\ arun.asked
    /\ arun.answer = <<"y", "e", "s">>
    /\ AddTargets # {}
    /\ \A p \in AddTargets : p \notin DOMAIN fs
    /\ fs = fs0
    /\ dirs = dirs0

\* The loaders: the module directory and the class prefix of each.
Loaders == { <<<<"f", "a", "b", "r", "i", "c">>, <<"F", "a", "b", "r", "i", "c">>>>, <<<<"f", "o", "r", "g", "e">>, <<"F", "o", "r", "g", "e">>>>, <<<<"n", "e", "o", "f", "o", "r", "g", "e">>, <<"N", "e", "o", "F", "o", "r", "g", "e">>>> }

\* <module>/src/main/java/<G as path>/platform/<prefix>N.java
ImplPath(l, G, N) ==
    <<l[1], <<"s", "r", "c">>, <<"m", "a", "i", "n">>, <<"j", "a", "v", "a">>>> \o SplitOn(G, {"."})
        \o <<<<"p", "l", "a", "t", "f", "o", "r", "m">>, l[2] \o N \o <<".", "j", "a", "v", "a">>>>

\* <module>/src/main/resources/META-INF/services/G.platform.services.N
MetaPath(l, G, N) ==
    <<l[1], <<"s", "r", "c">>, <<"m", "a", "i", "n">>, <<"r", "e", "s", "o", "u", "r", "c", "e", "s">>, <<"M", "E", "T", "A", "-", "I", "N", "F">>, <<"s", "e", "r", "v", "i", "c", "e", "s">>,
      G \o <<".", "p", "l", "a", "t", "f", "o", "r", "m", ".", "s", "e", "r", "v", "i", "c", "e", "s", ".">> \o N>>

\* common/src/main/java/<G as path>/platform/services/N.java
InterfacePath(G, N) ==
    <<<<"c", "o", "m", "m", "o", "n">>, <<"s", "r", "c">>, <<"m", "a", "i", "n">>, <<"j", "a", "v", "a">>>> \o SplitOn(G, {"."})
        \o <<<<"p", "l", "a", "t", "f", "o", "r", "m">>, <<"s", "e", "r", "v", "i", "c", "e", "s">>, N \o <<".", "j", "a", "v", "a">>>>

\* The fully qualified name of the class a Java text declares: the package of
\* its package line, a dot, the word after "class".
DeclaredClass(text) ==
    LET pkgword == text[1][2]
        decl == CHOOSE i \in 1..Len(text) : Len(text[i]) >= 3 /\ text[i][2] = <<"c", "l", "a", "s", "s">>
    IN  SubSeq(pkgword, 1, Len(pkgword) - 1) \o <<".">> \o text[decl][3]

\* C3: a confirmed run for name N and group G that found no target creates
\* exactly seven files and changes no other: the interface N under common,
\* per loader a class <Loader>N that implements N, and per loader a services
\* file named G.platform.services.N whose one line is the fully qualified name
\* of that loader's class.
AddCreatesSevenFiles ==
    (apc = "done" /\ arun.completed) =>
        LET G == arun.group
            N == arun.name
            created == (DOMAIN fs) \ (DOMAIN fs0)
        IN  /\ created = {InterfacePath(G, N)}
                           \cup {ImplPath(l, G, N) : l \in Loaders}
                           \cup {MetaPath(l, G, N) : l \in Loaders}
            /\ Cardinality(created) = 7
            /\ \A p \in DOMAIN fs0 : p \in DOMAIN fs /\ fs[p] = fs0[p]
            /\ \E i \in 1..Len(fs[InterfacePath(G, N)]) :
                  fs[InterfacePath(G, N)][i] = <<<<"p", "u", "b", "l", "i", "c">>, <<"i", "n", "t", "e", "r", "f", "a", "c", "e">>, N, <<"{">>>>
            /\ \A l \in Loaders :
                  /\ \E i \in 1..Len(fs[ImplPath(l, G, N)]) :
                        fs[ImplPath(l, G, N)][i] =
                            <<<<"p", "u", "b", "l", "i", "c">>, <<"c", "l", "a", "s", "s">>, l[2] \o N, <<"i", "m", "p", "l", "e", "m", "e", "n", "t", "s">>, N, <<"{">>>>
                  /\ fs[MetaPath(l, G, N)] = << <<DeclaredClass(fs[ImplPath(l, G, N)])>> >>

\* A confirmed run for a group of two components finished next to files the
\* user had written.
AddCreatesSevenFilesWitness ==
    /\ apc = "done"
    /\ arun.completed
    /\ arun.group = <<"a", ".", "b">>
    /\ \E p \in DOMAIN fs0 : fs0[p] = UserText

(***************************************************************************)
(* open-libs: open_libs.py main and moddy.py cmd_open_libs                 *)
(***************************************************************************)
\* choices=["fabric", "forge", "neoforge"] of the loader argument
LoaderChoices == {<<"f", "a", "b", "r", "i", "c">>, <<"f", "o", "r", "g", "e">>, <<"n", "e", "o", "f", "o", "r", "g", "e">>}

\* What may stand on the command line as the loader.
LoaderArgs == LoaderChoices \cup {<<"c", "o", "m", "m", "o", "n">>}

\* platform.system()
Systems == {"Windows", "Darwin", "Linux"}

\* libs = Path(loader) / "build" / "libs"
LibsPath(loader) == <<loader, <<"b", "u", "i", "l", "d">>, <<"l", "i", "b", "s">>>>

\* A mutation of IsDir: any existing path passes.
IsDirOrFile(p) == Exists(p)

\* p.is_dir()
IsDir(p) == p \in dirs

\* open_dir(path): what is started for the platform, and on what.
open_dir(system, path) ==
    [program |-> IF system = "Windows" THEN "os.startfile"
                 ELSE IF system = "Darwin" THEN "open"
                 ELSE "xdg-open",
     path |-> path]

\* The command line is parsed; a loader outside the choices ends the run in
\* argparse.
OpenStart ==
    /\ opc = "idle"
    /\ \E t \in Tools, a \in LoaderArgs, sys \in Systems :
          /\ tool' = t
          /\ orun' = [loader |-> a, system |-> sys]
          /\ IF a \notin LoaderChoices
             THEN /\ out' = <<"invalid choice">>
                  /\ opc' = "done"
             ELSE /\ out' = <<>>
                  /\ opc' = "check"
    /\ fs0' = fs
    /\ dirs0' = dirs
    /\ UNCHANGED <<fs, dirs, apc, arun, launched>>
    /\ UNCHANGED <<lookupVars, updateVars, setVars, setupVars>>

\* if not libs.is_dir(): print(...); return
OpenCheck ==
    /\ opc = "check"
    /\ IF ~IsDir(LibsPath(orun.loader))
       THEN /\ Say("No libs folder found")
            /\ opc' = "done"
       ELSE /\ opc' = "launch"
            /\ UNCHANGED out
    /\ UNCHANGED <<tool, orun, launched, addVars>>
    /\ UNCHANGED <<lookupVars, updateVars, setVars, setupVars>>

\* open_dir(libs): the file manager is started.
OpenLaunch ==
    /\ opc = "launch"
    /\ launched' = Append(launched, open_dir(orun.system, LibsPath(orun.loader)))
    /\ opc' = "done"
    /\ UNCHANGED <<tool, out, orun, addVars>>
    /\ UNCHANGED <<lookupVars, updateVars, setVars, setupVars>>

\* open_dir(libs) where the program is not installed: subprocess.run raises
\* and nothing is started.
OpenLaunchFail ==
    /\ opc = "launch"
    /\ orun.system # "Windows"
    /\ Say("FileNotFoundError")
    /\ opc' = "done"
    /\ UNCHANGED <<tool, orun, launched, addVars>>
    /\ UNCHANGED <<lookupVars, updateVars, setVars, setupVars>>

\* What <loader>/build/libs can be before a run: missing with or without the
\* build directory, a regular file, a directory.
LibsLayouts == {"absent", "nobuild", "file", "dir"}

\* The files and the directories of a project whose loaders have the given
\* layouts.
LayoutFiles(lay) ==
    [p \in {LibsPath(l) : l \in {m \in LoaderChoices : lay[m] = "file"}} |-> <<>>]
LayoutDirs(lay) ==
    UNION {IF lay[l] = "nobuild" THEN {<<l>>}
           ELSE IF lay[l] = "absent" THEN {<<l>>, <<l, <<"b", "u", "i", "l", "d">>>>}
           ELSE IF lay[l] = "file" THEN {<<l>>, <<l, <<"b", "u", "i", "l", "d">>>>}
           ELSE {<<l>>, <<l, <<"b", "u", "i", "l", "d">>>>, LibsPath(l)} : l \in LoaderChoices}

InitOpenLibs ==
    /\ tool = "script"
    /\ LookupOff
    /\ UpdateOff
    /\ SetOff
    /\ SetupOff
    /\ out = <<>>
    /\ \E lay \in [LoaderChoices -> LibsLayouts] :
          /\ fs = LayoutFiles(lay)
          /\ dirs = LayoutDirs(lay)
    /\ apc = "off"
    /\ arun = NoAddRun
    /\ fs0 = fs
    /\ dirs0 = dirs
    /\ opc = "idle"
    /\ orun = NoOpenRun
    /\ launched = <<>>

NextOpenLibs ==
    \/ OpenStart
    \/ OpenCheck
    \/ OpenLaunch
    \/ OpenLaunchFail

SpecOpenLibs == InitOpenLibs /\ [][NextOpenLibs]_vars

\* C12: open-libs changes no file and no directory; whatever it starts is
\* the file manager on <loader>/build/libs of the loader it was called for,
\* and that path was a directory; a run for a loader whose build/libs is not
\* a directory prints No libs folder found and starts nothing.
OpenLibsTouchesNothing ==
    /\ fs = fs0
    /\ dirs = dirs0
    /\ Len(launched) <= 1
    /\ \A i \in 1..Len(launched) :
          /\ launched[i].path = <<orun.loader, <<"b", "u", "i", "l", "d">>, <<"l", "i", "b", "s">>>>
          /\ launched[i].path \in dirs0
          /\ launched[i].program \in {"os.startfile", "open", "xdg-open"}
    /\ (opc = "done" /\ orun.loader \in LoaderChoices
            /\ <<orun.loader, <<"b", "u", "i", "l", "d">>, <<"l", "i", "b", "s">>>> \notin dirs0)
          => (launched = <<>> /\ out = <<"No libs folder found">>)

\* A run for a loader whose build/libs is a regular file ended with the
\* message and nothing started, while another loader has its libs directory.
OpenLibsTouchesNothingWitness ==
    /\ opc = "done"
    /\ <<orun.loader, <<"b", "u", "i", "l", "d">>, <<"l", "i", "b", "s">>>> \in DOMAIN fs0
    /\ \E l \in LoaderChoices : <<l, <<"b", "u", "i", "l", "d">>, <<"l", "i", "b", "s">>>> \in dirs0
    /\ launched = <<>>
    /\ out = <<"No libs folder found">>
    /\ fs = fs0
    /\ dirs = dirs0

(***************************************************************************)
(* setup: setup_mod.py and moddy.py cmd_setup                              *)
(***************************************************************************)
LowerLetters ==
    <<"a", "b", "c", "d", "e", "f", "g", "h", "i", "j", "k", "l", "m", "n", "o",
      "p", "q", "r", "s", "t", "u", "v", "w", "x", "y", "z">>
UpperLetters ==
    <<"A", "B", "C", "D", "E", "F", "G", "H", "I", "J", "K", "L", "M", "N", "O",
      "P", "Q", "R", "S", "T", "U", "V", "W", "X", "Y", "Z">>

\* c.upper() for one character
UpperChar(c) ==
    IF \E i \in 1..Len(LowerLetters) : LowerLetters[i] = c
    THEN UpperLetters[CHOOSE i \in 1..Len(LowerLetters) : LowerLetters[i] = c]
    ELSE c

\* p[:1].upper() + p[1:]
Capitalize(p) == IF Len(p) = 0 THEN <<>> ELSE <<UpperChar(p[1])>> \o Tail(p)

RECURSIVE Concat(_)
Concat(parts) == IF Len(parts) = 0 THEN <<>> ELSE Head(parts) \o Concat(Tail(parts))

\* to_camel(value): the pieces between runs of _, - and blanks, each with its
\* first letter in upper case, joined.
to_camel(value) ==
    LET parts == SplitOn(value, {"_", "-", " "})
    IN  Concat([i \in 1..Len(parts) |-> Capitalize(parts[i])])

\* s.replace(old, new): the occurrences of old, found from the left without
\* overlap, become new.
RECURSIVE Replace(_, _, _)
Replace(s, old, new) ==
    IF Len(old) = 0 \/ Len(s) < Len(old) THEN s
    ELSE IF StartsWith(s, old)
         THEN new \o Replace(SubSeq(s, Len(old) + 1, Len(s)), old, new)
         ELSE <<s[1]>> \o Replace(Tail(s), old, new)

\* for old, new in replacements.items(): text = text.replace(old, new); each
\* replacement works on the result of the ones before it.
RECURSIVE ReplaceEach(_, _)
ReplaceEach(s, repls) ==
    IF Len(repls) = 0 THEN s
    ELSE ReplaceEach(Replace(s, repls[1][1], repls[1][2]), Tail(repls))

\* A dict literal: a key written twice keeps its first place and its last
\* value.
RECURSIVE DictOf(_)
DictOf(pairs) ==
    IF Len(pairs) = 0 THEN <<>>
    ELSE LET rest == DictOf(SubSeq(pairs, 1, Len(pairs) - 1))
             kv == pairs[Len(pairs)]
         IN  IF \E i \in 1..Len(rest) : rest[i][1] = kv[1]
             THEN [i \in 1..Len(rest) |-> IF rest[i][1] = kv[1] THEN kv ELSE rest[i]]
             ELSE Append(rest, kv)

\* The file of each tool under scripts/.
ScriptPath(t) ==
    IF t = "moddy" THEN <<<<"s", "c", "r", "i", "p", "t", "s">>, <<"m", "o", "d", "d", "y", ".", "p", "y">>>> ELSE <<<<"s", "c", "r", "i", "p", "t", "s">>, <<"s", "e", "t", "u", "p", "_", "m", "o", "d", ".", "p", "y">>>>

\* The string literals of a script that setup uses as keys, in the order
\* OLD_PACKAGE, OLD_MOD_ID, OLD_MOD_NAME, OLD_AUTHOR, then the four class
\* names; a script text is kept as the lines that hold these literals.
ScriptLiterals ==
    <<<<"c", "o", "m", ".", "e", "x", "a", "m", "p", "l", "e", ".", "m", "o", "d", "t", "e", "m", "p", "l", "a", "t", "e">>, <<"e", "x", "a", "m", "p", "l", "e", "m", "o", "d">>, <<"E", "x", "a", "m", "p", "l", "e", " ", "M", "o", "d">>, <<"y", "o", "u", "r", "n", "a", "m", "e">>,
      <<"T", "e", "m", "p", "l", "a", "t", "e", "M", "o", "d">>, <<"T", "e", "m", "p", "l", "a", "t", "e", "F", "a", "b", "r", "i", "c">>, <<"T", "e", "m", "p", "l", "a", "t", "e", "F", "o", "r", "g", "e">>, <<"T", "e", "m", "p", "l", "a", "t", "e", "N", "e", "o", "F", "o", "r", "g", "e">>>>

GradlePath == <<<<"g", "r", "a", "d", "l", "e", ".", "p", "r", "o", "p", "e", "r", "t", "i", "e", "s">>>>
ChangelogPath == <<<<"c", "h", "a", "n", "g", "e", "l", "o", "g", ".", "m", "d">>>>
\* icon_path = Path("common/src/main/resources/icon.png")
IconPath == <<<<"c", "o", "m", "m", "o", "n">>, <<"s", "r", "c">>, <<"m", "a", "i", "n">>, <<"r", "e", "s", "o", "u", "r", "c", "e", "s">>, <<"i", "c", "o", "n", ".", "p", "n", "g">>>>

\* default_version(): the stripped value of the first version= line of
\* gradle.properties, 1.0.0 when there is none.
default_version(tr) ==
    LET hits == IF GradlePath \in DOMAIN tr
                THEN SelectSeq(tr[GradlePath], LAMBDA l : StartsWith(l, <<"v", "e", "r", "s", "i", "o", "n", "=">>))
                ELSE <<>>
    IN  IF Len(hits) = 0 THEN <<"1", ".", "0", ".", "0">>
        ELSE Strip(SubSeq(hits[1], Len(<<"v", "e", "r", "s", "i", "o", "n", "=">>) + 1, Len(hits[1])))

\* '.git' in path.parts
InGit(p) == \E i \in 1..Len(p) : p[i] = <<".", "g", "i", "t">>

\* The regular files of the template as it is cloned, reduced to the lines
\* that setup can touch; hasIcon tells whether icon.png is already there.
TemplateTree(hasIcon) ==
    LET tr ==
          << <<ScriptPath("script"), ScriptLiterals>>,
             <<ScriptPath("moddy"), ScriptLiterals>>,
             << <<<<"R", "E", "A", "D", "M", "E", ".", "m", "d">>>>,
                <<<<"E", "x", "a", "m", "p", "l", "e", " ", "M", "o", "d", " ", "b", "y", " ", "y", "o", "u", "r", "n", "a", "m", "e">>, <<"i", "d", " ", "e", "x", "a", "m", "p", "l", "e", "m", "o", "d">>>> >>,
             << <<<<"c", "o", "m", "m", "o", "n">>, <<"s", "r", "c">>, <<"m", "a", "i", "n">>, <<"j", "a", "v", "a">>, <<"c", "o", "m">>, <<"e", "x", "a", "m", "p", "l", "e">>, <<"m", "o", "d", "t", "e", "m", "p", "l", "a", "t", "e">>, <<"T", "e", "m", "p", "l", "a", "t", "e", "M", "o", "d", ".", "j", "a", "v", "a">>>>,
                <<<<"p", "a", "c", "k", "a", "g", "e", " ", "c", "o", "m", ".", "e", "x", "a", "m", "p", "l", "e", ".", "m", "o", "d", "t", "e", "m", "p", "l", "a", "t", "e", ";">>, <<"c", "l", "a", "s", "s", " ", "T", "e", "m", "p", "l", "a", "t", "e", "M", "o", "d">>>> >>,
             << <<<<"f", "a", "b", "r", "i", "c">>, <<"s", "r", "c">>, <<"m", "a", "i", "n">>, <<"j", "a", "v", "a">>, <<"c", "o", "m">>, <<"e", "x", "a", "m", "p", "l", "e">>, <<"m", "o", "d", "t", "e", "m", "p", "l", "a", "t", "e">>, <<"T", "e", "m", "p", "l", "a", "t", "e", "F", "a", "b", "r", "i", "c", ".", "j", "a", "v", "a">>>>,
                <<<<"p", "a", "c", "k", "a", "g", "e", " ", "c", "o", "m", ".", "e", "x", "a", "m", "p", "l", "e", ".", "m", "o", "d", "t", "e", "m", "p", "l", "a", "t", "e", ";">>, <<"c", "l", "a", "s", "s", " ", "T", "e", "m", "p", "l", "a", "t", "e", "F", "a", "b", "r", "i", "c">>>> >>,
             << <<<<"f", "a", "b", "r", "i", "c">>, <<"s", "r", "c">>, <<"m", "a", "i", "n">>, <<"r", "e", "s", "o", "u", "r", "c", "e", "s">>, <<"e", "x", "a", "m", "p", "l", "e", "m", "o", "d", ".", "m", "i", "x", "i", "n", "s", ".", "j", "s", "o", "n">>>>,
                <<<<"c", "o", "m", ".", "e", "x", "a", "m", "p", "l", "e", ".", "m", "o", "d", "t", "e", "m", "p", "l", "a", "t", "e", ".", "m", "i", "x", "i", "n">>>> >>,
             <<GradlePath, <<<<"v", "e", "r", "s", "i", "o", "n", "=", "1", ".", "0", ".", "0">>, <<"g", "r", "o", "u", "p", "=", "c", "o", "m", ".", "e", "x", "a", "m", "p", "l", "e", ".", "m", "o", "d", "t", "e", "m", "p", "l", "a", "t", "e">>>> >>,
             <<ChangelogPath,
                <<<<"#", " ", "C", "h", "a", "n", "g", "e", "l", "o", "g">>, <<"#", "#", " ", "1", ".", "0", ".", "0">>, <<>>, <<"I", "n", "i", "t", "i", "a", "l">>, <<>>, <<"#", "#", " ", "T", "y", "p", "e", "s", " ", "o", "f", " ", "c", "h", "a", "n", "g", "e", "s">>, <<"-", " ", "A", "d", "d", "e", "d">>>> >>,
             << <<<<".", "g", "i", "t">>, <<"d", "e", "s", "c", "r", "i", "p", "t", "i", "o", "n">>>>, <<<<"e", "x", "a", "m", "p", "l", "e", "m", "o", "d">>>> >>,
             <<IconPath, <<<<"t", "e", "m", "p", "l", "a", "t", "e", " ", "i", "c", "o", "n">>>> >> >>
        n == IF hasIcon THEN Len(tr) ELSE Len(tr) - 1
    IN  [p \in {tr[i][1] : i \in 1..n} |->
            tr[CHOOSE i \in 1..n : tr[i][1] = p][2]]

\* What the user may type at the five prompts; an empty answer takes the
\* default.
PackageAnswers == {<<>>, <<"i", "o", ".", "e", "x", "a", "m", "p", "l", "e", "m", "o", "d">>}
ModIdAnswers == {<<>>, <<"z", "a", "p">>}
ModNameAnswers == {<<>>, <<"M", "y", " ", "M", "o", "d">>}
AuthorAnswers == {<<>>, <<"b", "o", "b">>}
VersionAnswers == {<<>>, <<"2", ".", "0">>}

\* The locals of a setup run before it has read anything; n counts the runs,
\* prev holds the answers of the last run that went through.
NoSetupRun ==
    [n |-> 1, auto_yes |-> FALSE, answers |-> <<>>,
     old_package |-> <<>>, old_mod_id |-> <<>>,
     base_package |-> <<>>, mod_id |-> <<>>, mod_name |-> <<>>, author |-> <<>>,
     version |-> <<>>, class_prefix |-> <<>>, replacements |-> <<>>,
     asked |-> FALSE, answer |-> <<>>, completed |-> FALSE, prev |-> None]

\* input(...) or default
OrDefault(answer, default) == IF answer = <<>> THEN default ELSE answer

\* The five prompts are answered and the replacements are built from the
\* literals of the running script.
SetupStart ==
    /\ xpc = "idle"
    /\ \E t \in Tools, ay \in BOOLEAN,
          a1 \in PackageAnswers, a2 \in ModIdAnswers, a3 \in ModNameAnswers,
          a4 \in AuthorAnswers, a5 \in VersionAnswers :
          LET lits == tree[ScriptPath(t)]
              base_package == OrDefault(a1, lits[1])
              mod_id == OrDefault(a2, lits[2])
              mod_name == OrDefault(a3, lits[3])
              author == OrDefault(a4, lits[4])
              version == OrDefault(a5, default_version(tree))
              class_prefix == to_camel(mod_name)
          IN  /\ (t = "script") => ~ay
              /\ tool' = t
              /\ xrun' = [xrun EXCEPT
                            !.auto_yes = ay,
                            !.answers = <<a1, a2, a3, a4, a5>>,
                            !.old_package = lits[1],
                            !.old_mod_id = lits[2],
                            !.base_package = base_package,
                            !.mod_id = mod_id,
                            !.mod_name = mod_name,
                            !.author = author,
                            !.version = version,
                            !.class_prefix = class_prefix,
                            !.replacements = DictOf(
                                <<<<lits[1], base_package>>,
                                  <<lits[2], mod_id>>,
                                  <<lits[3], mod_name>>,
                                  <<lits[4], author>>,
                                  <<lits[5], class_prefix \o <<"M", "o", "d">>>>,
                                  <<lits[6], class_prefix \o <<"F", "a", "b", "r", "i", "c">>>>,
                                  <<lits[7], class_prefix \o <<"F", "o", "r", "g", "e">>>>,
                                  <<lits[8], class_prefix \o <<"N", "e", "o", "F", "o", "r", "g", "e">>>>>>)]
              /\ IF t = "moddy"
                 THEN /\ out' = <<"This will update package names, identifiers and the changelog in this project.">>
                      /\ xpc' = IF ay THEN "content" ELSE "confirm"
                 ELSE /\ out' = <<>>
                      /\ xpc' = "content"
    /\ tree0' = tree
    /\ UNCHANGED tree
    /\ UNCHANGED <<lookupVars, updateVars, setVars, addVars, openVars>>

\* moddy: the Proceed? prompt.
SetupConfirm ==
    /\ xpc = "confirm"
    /\ \E answer \in Answers :
          /\ xrun' = [xrun EXCEPT !.asked = TRUE, !.answer = answer]
          /\ IF Declined(xrun.auto_yes, answer)
             THEN /\ Say("Aborted")
                  /\ xpc' = "done"
             ELSE /\ xpc' = "content"
                  /\ UNCHANGED out
    /\ UNCHANGED <<tool, tree, tree0>>
    /\ UNCHANGED <<lookupVars, updateVars, setVars, addVars, openVars>>

\* The text of a file after the loop over replacements.
ReplacedText(text, repls) == [i \in 1..Len(text) |-> ReplaceEach(text[i], repls)]

\* Updating file contents: every regular file outside .git is read, run
\* through the replacements and written back when one of them applied.
SetupContent ==
    /\ xpc = "content"
    /\ tree' = [p \in DOMAIN tree |->
                  IF InGit(p) THEN tree[p]
                  ELSE ReplacedText(tree[p], xrun.replacements)]
    /\ xpc' = "dirs"
    /\ UNCHANGED <<tool, out, xrun, tree0>>
    /\ UNCHANGED <<lookupVars, updateVars, setVars, addVars, openVars>>

\* The files below directory d.
Under(tr, d) ==
    {p \in DOMAIN tr : Len(p) > Len(d) /\ SubSeq(p, 1, Len(d)) = d}

\* One module of the directory loop: when old_dir exists (holds a file) it
\* is moved to new_dir, and into new_dir when that is a directory already.
MoveDir(tr, module, old_parts, new_parts) ==
    LET src == <<module, <<"s", "r", "c">>, <<"m", "a", "i", "n">>, <<"j", "a", "v", "a">>>>
        old_dir == src \o old_parts
        new_dir == src \o new_parts
        dst == IF Under(tr, new_dir) # {} THEN new_dir \o <<Last(old_parts)>> ELSE new_dir
        to(p) == IF p \in Under(tr, old_dir)
                 THEN dst \o SubSeq(p, Len(old_dir) + 1, Len(p))
                 ELSE p
    IN  IF Under(tr, old_dir) = {} \/ new_dir = old_dir THEN tr
        ELSE [q \in {to(p) : p \in DOMAIN tr} |->
                 tr[CHOOSE p \in DOMAIN tr : to(p) = q]]

\* for module in ['common', 'fabric', 'forge', 'neoforge']
RECURSIVE MoveDirs(_, _, _, _)
MoveDirs(tr, modules, old_parts, new_parts) ==
    IF Len(modules) = 0 THEN tr
    ELSE MoveDirs(MoveDir(tr, Head(modules), old_parts, new_parts),
                  Tail(modules), old_parts, new_parts)

\* Renaming package directories.
SetupMoveDirs ==
    /\ xpc = "dirs"
    /\ tree' = MoveDirs(tree, <<<<"c", "o", "m", "m", "o", "n">>, <<"f", "a", "b", "r", "i", "c">>, <<"f", "o", "r", "g", "e">>, <<"n", "e", "o", "f", "o", "r", "g", "e">>>>,
                        SplitOn(xrun.old_package, {"."}),
                        SplitOn(xrun.base_package, {"."}))
    /\ xpc' = "files"
    /\ UNCHANGED <<tool, out, xrun, tree0>>
    /\ UNCHANGED <<lookupVars, updateVars, setVars, addVars, openVars>>

\* The name the file loop gives a file: the mod id, then the package, then
\* Template are replaced in it.
new_name(name, run) ==
    Replace(Replace(Replace(name, run.old_mod_id, run.mod_id),
                    run.old_package, run.base_package),
            <<"T", "e", "m", "p", "l", "a", "t", "e">>, run.class_prefix)

\* path.with_name(new_name)
RenamedPath(p, run) ==
    IF InGit(p) THEN p
    ELSE SubSeq(p, 1, Len(p) - 1) \o <<new_name(Last(p), run)>>

\* Renaming files.
SetupRenameFiles ==
    /\ xpc = "files"
    /\ tree' = [q \in {RenamedPath(p, xrun) : p \in DOMAIN tree} |->
                  tree[CHOOSE p \in DOMAIN tree : RenamedPath(p, xrun) = q]]
    /\ xpc' = "version"
    /\ UNCHANGED <<tool, out, xrun, tree0>>
    /\ UNCHANGED <<lookupVars, updateVars, setVars, addVars, openVars>>

\* re.sub(r"(?m)^version=.*$", f"version={version}", text)
SetupVersion ==
    /\ xpc = "version"
    /\ LET lines == tree[GradlePath]
       IN  tree' = [p \in DOMAIN tree |->
                      IF p # GradlePath THEN tree[p]
                      ELSE [i \in 1..Len(lines) |->
                              IF StartsWith(lines[i], <<"v", "e", "r", "s", "i", "o", "n", "=">>)
                              THEN <<"v", "e", "r", "s", "i", "o", "n", "=">> \o xrun.version
                              ELSE lines[i]]]
    /\ xpc' = "changelog"
    /\ Say("Set version")
    /\ UNCHANGED <<tool, xrun, tree0>>
    /\ UNCHANGED <<lookupVars, updateVars, setVars, addVars, openVars>>

\* The position of the first line equal to v, 0 when there is none
\* (list.index and its ValueError).
IndexOf(lines, v) ==
    IF \E i \in 1..Len(lines) : lines[i] = v
    THEN CHOOSE i \in 1..Len(lines) :
            /\ lines[i] = v
            /\ \A j \in 1..(i - 1) : lines[j] # v
    ELSE 0

\* The changelog lines without the "## 1.0.0" entry: that line and what
\* follows it up to the next line that starts with "## ".
WithoutDefaultEntry(lines) ==
    LET def_idx == IndexOf(lines, <<"#", "#", " ", "1", ".", "0", ".", "0">>)
        later == {j \in (def_idx + 1)..Len(lines) : StartsWith(lines[j], <<"#", "#", " ">>)}
        end_idx == IF later = {} THEN Len(lines) + 1
                   ELSE CHOOSE j \in later : \A k \in later : j <= k
    IN  IF def_idx = 0 THEN lines
        ELSE SubSeq(lines, 1, def_idx - 1) \o SubSeq(lines, end_idx, Len(lines))

\* chg_lines[idx:idx] = entry: the entry goes before "## Types of changes",
\* at the end when there is no such line.
WithEntry(lines, version) ==
    LET entry == <<<<"#", "#", " ">> \o version, <<>>, <<"I", "n", "i", "t", "i", "a", "l", " ", "I", "m", "p", "l", "e", "m", "e", "n", "t", "a", "t", "i", "o", "n">>, <<>>>>
        idx == IndexOf(lines, <<"#", "#", " ", "T", "y", "p", "e", "s", " ", "o", "f", " ", "c", "h", "a", "n", "g", "e", "s">>)
    IN  IF idx = 0 THEN lines \o entry
        ELSE SubSeq(lines, 1, idx - 1) \o entry \o SubSeq(lines, idx, Len(lines))

\* changelog.md is rewritten.
SetupChangelog ==
    /\ xpc = "changelog"
    /\ tree' = [p \in DOMAIN tree |->
                  IF p # ChangelogPath THEN tree[p]
                  ELSE WithEntry(WithoutDefaultEntry(tree[p]), xrun.version)]
    /\ xpc' = "icon"
    /\ Say("Updated changelog")
    /\ UNCHANGED <<tool, xrun, tree0>>
    /\ UNCHANGED <<lookupVars, updateVars, setVars, addVars, openVars>>

\* create_icon(char, filename): the picture of the letter, of nothing when
\* the font has no such letter.
create_icon(char) ==
    IF \E i \in 1..Len(UpperLetters) : UpperLetters[i] = UpperChar(char)
    THEN << <<UpperChar(char)>> >>
    ELSE << <<>> >>

\* The icon is made unless there is one; the run ends.
SetupIcon ==
    /\ xpc = "icon"
    /\ IF IconPath \notin DOMAIN tree
       THEN /\ tree' = [p \in (DOMAIN tree) \cup {IconPath} |->
                          IF p = IconPath THEN create_icon(xrun.mod_name[1]) ELSE tree[p]]
            /\ out' = out \o <<"Created icon", "Template initialized.">>
       ELSE /\ UNCHANGED tree
            /\ out' = out \o <<"Skipped icon generation", "Template initialized.">>
    /\ xrun' = [xrun EXCEPT !.completed = TRUE]
    /\ xpc' = "done"
    /\ UNCHANGED <<tool, tree0>>
    /\ UNCHANGED <<lookupVars, updateVars, setVars, addVars, openVars>>

\* The process ends; setup can be started again.
SetupExit ==
    /\ xpc = "done"
    /\ xrun.n < MaxRuns
    /\ xrun' = [NoSetupRun EXCEPT
                  !.n = xrun.n + 1,
                  !.prev = IF xrun.completed THEN Some(xrun.answers) ELSE xrun.prev]
    /\ xpc' = "idle"
    /\ out' = <<>>
    /\ UNCHANGED <<tool, tree, tree0>>
    /\ UNCHANGED <<lookupVars, updateVars, setVars, addVars, openVars>>

InitSetup ==
    /\ tool = "script"
    /\ LookupOff
    /\ UpdateOff
    /\ SetOff
    /\ AddOff
    /\ OpenOff
    /\ out = <<>>
    /\ \E hasIcon \in BOOLEAN : tree = TemplateTree(hasIcon)
    /\ tree0 = tree
    /\ xpc = "idle"
    /\ xrun = NoSetupRun

NextSetup ==
    \/ SetupStart
    \/ SetupConfirm
    \/ SetupContent
    \/ SetupMoveDirs
    \/ SetupRenameFiles
    \/ SetupVersion
    \/ SetupChangelog
    \/ SetupIcon
    \/ SetupExit

SpecSetup == InitSetup /\ [][NextSetup]_vars

\* The placeholders of the template with the value the run's user supplied
\* for each.
Supplied(run) ==
    << <<<<"c", "o", "m", ".", "e", "x", "a", "m", "p", "l", "e", ".", "m", "o", "d", "t", "e", "m", "p", "l", "a", "t", "e">>, run.base_package>>,
       <<<<"e", "x", "a", "m", "p", "l", "e", "m", "o", "d">>, run.mod_id>>,
       <<<<"E", "x", "a", "m", "p", "l", "e", " ", "M", "o", "d">>, run.mod_name>>,
       <<<<"y", "o", "u", "r", "n", "a", "m", "e">>, run.author>>,
       <<<<"T", "e", "m", "p", "l", "a", "t", "e", "M", "o", "d">>, run.class_prefix \o <<"M", "o", "d">>>>,
       <<<<"T", "e", "m", "p", "l", "a", "t", "e", "F", "a", "b", "r", "i", "c">>, run.class_prefix \o <<"F", "a", "b", "r", "i", "c">>>>,
       <<<<"T", "e", "m", "p", "l", "a", "t", "e", "F", "o", "r", "g", "e">>, run.class_prefix \o <<"F", "o", "r", "g", "e">>>>,
       <<<<"T", "e", "m", "p", "l", "a", "t", "e", "N", "e", "o", "F", "o", "r", "g", "e">>, run.class_prefix \o <<"N", "e", "o", "F", "o", "r", "g", "e">>>> >>

\* The line s with every place where a placeholder stands turned into the
\* value for that placeholder, the values themselves left as they are.
RECURSIVE EachPlaceholderSet(_, _)
EachPlaceholderSet(s, pairs) ==
    IF Len(s) = 0 THEN <<>>
    ELSE LET hits == {i \in 1..Len(pairs) : StartsWith(s, pairs[i][1])}
         IN  IF hits = {} THEN <<s[1]>> \o EachPlaceholderSet(Tail(s), pairs)
             ELSE LET i == CHOOSE j \in hits : TRUE
                  IN  pairs[i][2] \o EachPlaceholderSet(
                          SubSeq(s, Len(pairs[i][1]) + 1, Len(s)), pairs)

\* C11: after a setup run that went through, every regular file outside
\* .git (that kept its path; gradle.properties and changelog.md, which get
\* further edits, aside) reads as it did before with each placeholder turned
\* into exactly the value supplied for it, whatever the values are.
SetupReplacesEveryPlaceholder ==
    (xpc = "done" /\ xrun.completed) =>
        \A p \in (DOMAIN tree0) \cap (DOMAIN tree) :
            (~InGit(p) /\ p \notin {GradlePath, ChangelogPath}) =>
                tree[p] = [i \in 1..Len(tree0[p]) |->
                              EachPlaceholderSet(tree0[p][i], Supplied(xrun))]

\* C13: a setup run that went through with the answers of the run before
\* it leaves every file, name and text, as that run left it, and changelog.md
\* holds one entry for the version.
SetupIdempotent ==
    (xpc = "done" /\ xrun.completed /\ xrun.prev = Some(xrun.answers)) =>
        /\ tree = tree0
        /\ Cardinality({i \in 1..Len(tree[ChangelogPath]) :
                           tree[ChangelogPath][i] = <<"#", "#", " ">> \o xrun.version}) = 1

====
